---- MODULE Spec2Model ----
(***************************************************************************)
(* Model of the decide operation of the two LLM player adapters of         *)
(* LLM_bot.py: Gemini2_0Player and OpenAIGPT4OMiniPlayer.                  *)
(*                                                                         *)
(* A reply text is a sequence of tokens.  Every token is one character of  *)
(* the text, except the quoted strings and the literals true and null,     *)
(* which are one token each.  json.loads and int are modelled on these     *)
(* token sequences by their grammars, so that which texts each of them     *)
(* accepts is computed, not assumed.                                       *)
(***************************************************************************)
EXTENDS Integers, Sequences, FiniteSets

\* ------------------------------------------------------------------ bounds

\* Longest move list handed to decide.
MaxN == 3

\* Longest reply text made of free characters (digits and signs).
MaxTextLen == 2

\* ------------------------------------------------------------ reply texts

\* The token of the quoted string "selected_action", the key of the reply schema.
KEY == "selected_action"

\* The token of some other quoted string.
OTHERSTR == "other"

StringTokens == {KEY, OTHERSTR}

Digits == {"0", "1", "2", "3", "4", "5", "6", "7", "8", "9"}

DigitVal(c) ==
    CASE c = "0" -> 0 [] c = "1" -> 1 [] c = "2" -> 2 [] c = "3" -> 3
      [] c = "4" -> 4 [] c = "5" -> 5 [] c = "6" -> 6 [] c = "7" -> 7
      [] c = "8" -> 8 [] c = "9" -> 9

\* The characters the free reply texts are made of.
BareAlphabet == {"0", "1", "2", "+", "-"}

SeqsUpTo(S, n) == UNION {[1..k -> S] : k \in 1..n}

\* Reply texts with a blank or a letter in them.
BlankTexts == {<<" ">>, <<" ", "1">>, <<"1", " ">>, <<"1", " ", "1">>, <<"x">>, <<"x", "1">>}

BareTexts == SeqsUpTo(BareAlphabet, MaxTextLen) \cup BlankTexts

\* What stands after the colon in the object texts.
ValueTexts ==
    SeqsUpTo(BareAlphabet, MaxTextLen - 1)
        \cup {<<"true">>, <<"null">>, <<OTHERSTR>>, <<"1", ".", "5">>, <<"1", ".", "0">>,
              <<"-", "1">>, <<"{", "}">>}

ObjectTexts ==
    {<<"{", KEY, ":">> \o v \o <<"}">> : v \in ValueTexts}
        \cup {<<"{", "}">>, <<"{", OTHERSTR, ":", "1", "}">>,
              <<"{", " ", KEY, " ", ":", " ", "1", " ", "}">>}

\* Non-object JSON texts beyond the numbers of BareTexts.
ScalarTexts == {<<"true">>, <<"null">>, <<OTHERSTR>>, <<"1", ".", "5">>}

Texts == BareTexts \cup ObjectTexts \cup ScalarTexts

\* ------------------------------------------------- Python library functions

Min(S) == CHOOSE x \in S : \A y \in S : x <= y

Max(S) == CHOOSE x \in S : \A y \in S : x >= y

\* str.strip(): the text without its leading and trailing blanks.
strip(s) ==
    LET idx == {i \in 1..Len(s) : s[i] # " "}
    IN  IF idx = {} THEN << >> ELSE SubSeq(s, Min(idx), Max(idx))

IsDigits(s) == Len(s) >= 1 /\ \A i \in 1..Len(s) : s[i] \in Digits

RECURSIVE DecVal(_)
DecVal(s) ==
    IF s = << >> THEN 0
    ELSE DecVal(SubSeq(s, 1, Len(s) - 1)) * 10 + DigitVal(s[Len(s)])

\* int(text): blanks around, an optional sign, then digits (leading zeros
\* allowed); anything else raises ValueError.
int(s) ==
    LET t      == strip(s)
        signed == t # << >> /\ t[1] \in {"+", "-"}
        body   == IF signed THEN Tail(t) ELSE t
    IN  IF IsDigits(body)
        THEN [exc |-> "", val |-> IF signed /\ t[1] = "-" THEN 0 - DecVal(body) ELSE DecVal(body)]
        ELSE [exc |-> "ValueError", val |-> 0]

\* A Python value: type, and for numbers val (the integer part, signed),
\* frac (a non-zero fraction) and neg (written with a minus sign).
PyVal(type, val, neg, frac) == [type |-> type, val |-> val, neg |-> neg, frac |-> frac]

DecodeError == PyVal("JSONDecodeError", 0, FALSE, FALSE)

\* The JSON number grammar: -? (0 | [1-9][0-9]*) (. [0-9]+)?
json_number(t) ==
    LET neg  == t # << >> /\ t[1] = "-"
        body == IF neg THEN Tail(t) ELSE t
        dots == {i \in 1..Len(body) : body[i] = "."}
        ip   == IF dots = {} THEN body ELSE SubSeq(body, 1, Min(dots) - 1)
        fr   == IF dots = {} THEN << >> ELSE SubSeq(body, Min(dots) + 1, Len(body))
        ipOk == IsDigits(ip) /\ (Len(ip) = 1 \/ ip[1] # "0")
        sgn  == IF neg THEN 0 - DecVal(ip) ELSE DecVal(ip)
    IN  IF ~ipOk THEN DecodeError
        ELSE IF dots = {} THEN PyVal("int", sgn, neg, FALSE)
        ELSE IF IsDigits(fr) THEN PyVal("float", sgn, neg, DecVal(fr) # 0)
        ELSE DecodeError

\* One JSON value in a text without blanks around it.  An object holds no
\* pair or one pair (the texts have no comma); a dict value carries its key
\* ("" for the empty dict) and the value stored under it.
RECURSIVE json_value(_)
json_value(t) ==
    IF t = << >> THEN DecodeError
    ELSE IF t = <<"true">> THEN PyVal("bool", 1, FALSE, FALSE)
    ELSE IF t = <<"false">> THEN PyVal("bool", 0, FALSE, FALSE)
    ELSE IF t = <<"null">> THEN PyVal("NoneType", 0, FALSE, FALSE)
    ELSE IF Len(t) = 1 /\ t[1] \in StringTokens THEN PyVal("str", 0, FALSE, FALSE)
    ELSE IF t[1] = "{"
    THEN IF Len(t) < 2 \/ t[Len(t)] # "}" THEN DecodeError
         ELSE LET inner == strip(SubSeq(t, 2, Len(t) - 1))
              IN  IF inner = << >>
                  THEN [type |-> "dict", key |-> "", item |-> DecodeError]
                  ELSE IF inner[1] \notin StringTokens THEN DecodeError
                  ELSE LET rest == strip(Tail(inner))
                       IN  IF rest = << >> \/ rest[1] # ":" THEN DecodeError
                           ELSE LET v == json_value(strip(Tail(rest)))
                                IN  IF v.type = "JSONDecodeError" THEN DecodeError
                                    ELSE [type |-> "dict", key |-> inner[1], item |-> v]
    ELSE json_number(t)

\* json.loads(text): one JSON value with blanks around it, or JSONDecodeError.
json_loads(s) == json_value(strip(s))

\* content["selected_action"]: the stored value of a dict that has the
\* key, KeyError for a dict that lacks it, TypeError for any other value
\* (an int, a float, a bool and None are not subscriptable; a str takes
\* integer indices only).
getitem(content) ==
    IF content.type # "dict" THEN [exc |-> "TypeError", val |-> DecodeError]
    ELSE IF content.key # KEY THEN [exc |-> "KeyError", val |-> DecodeError]
    ELSE [exc |-> "", val |-> content.item]

\* 0 <= action_idx < n: defined between numbers (a bool is the int 0 or
\* 1), TypeError between 0 and a str, None or a dict.
in_range(action_idx, n) ==
    IF action_idx.type \in {"int", "bool"}
    THEN [exc |-> "", val |-> 0 <= action_idx.val /\ action_idx.val < n]
    ELSE IF action_idx.type = "float"
    THEN [exc |-> "",
          val |-> (~action_idx.neg \/ (action_idx.val = 0 /\ ~action_idx.frac))
                    /\ (action_idx.neg \/ action_idx.val < n)]
    ELSE [exc |-> "TypeError", val |-> FALSE]

\* playable_actions[i] of a Python list: i counts from 0, a negative i
\* counts from the end, anything else raises IndexError, and an index that
\* is no integer raises TypeError.
list_getitem(list, i) ==
    IF i.type \notin {"int", "bool"} THEN [exc |-> "TypeError", val |-> 0]
    ELSE IF 0 <= i.val /\ i.val < Len(list) THEN [exc |-> "", val |-> list[i.val + 1]]
    ELSE IF 0 - Len(list) <= i.val /\ i.val < 0
    THEN [exc |-> "", val |-> list[Len(list) + i.val + 1]]
    ELSE [exc |-> "IndexError", val |-> 0]

PyInt(n) == PyVal("int", n, n < 0, FALSE)

\* ------------------------------------------------------- results of a step

\* How a block of decide ends: it returns a move, it sleeps and continues
\* with the next attempt, it raises, or it runs off its end.  idx is the
\* value the block has assigned to action_idx, << >> when it assigned none.
Return(move, idx)  == [kind |-> "return", move |-> move, exc |-> "", idx |-> idx]

Raise(exc, idx)    == [kind |-> "raise", move |-> 0, exc |-> exc, idx |-> idx]

SleepContinue(idx) == [kind |-> "continue", move |-> 0, exc |-> "", idx |-> idx]

FallThrough(idx)   == [kind |-> "fallthrough", move |-> 0, exc |-> "", idx |-> idx]

\* return playable_actions[i], which raises what the indexing raises.
ReturnItem(list, i, idx) ==
    LET r == list_getitem(list, i)
    IN  IF r.exc # "" THEN Raise(r.exc, idx) ELSE Return(r.val, idx)

\* The exceptions of the model; all of them are subclasses of Exception.
Exceptions ==
    {"JSONDecodeError", "KeyError", "ValueError", "TypeError", "IndexError",
     "APIConnectionError", "RateLimitError"}

\* The failures the remote call raises.
TransportErrors == {"APIConnectionError", "RateLimitError"}

\* --------------------------------------------------------- Gemini2_0Player

\* if not completion.choices or not completion.choices[0].message
\*    or not completion.choices[0].message.content
Gemini_no_content(completion) ==
    \/ completion.shape \in {"no_choices", "no_message", "none_content"}
    \/ completion.content = << >>

\* The retry test with its bound off by one: the last attempt retries too.
Gemini_may_retry_always(attempt, max_retries) == attempt < max_retries

\* A retry test that is never true: no attempt is followed by another.
Gemini_may_retry_never(attempt, max_retries) == FALSE

\* if attempt < self.max_retries - 1
Gemini_may_retry(attempt, max_retries) == attempt < max_retries - 1

\* The range check with a strict lower bound: 0 < action_idx < len.
Gemini_json_in_range_positive(action_idx, playable_actions) ==
    LET r == in_range(action_idx, Len(playable_actions))
    IN  [exc |-> r.exc, val |-> r.val /\ action_idx.val > 0]

\* The range check without its lower bound: action_idx < len.
Gemini_json_in_range_no_lower(action_idx, playable_actions) ==
    LET r == in_range(action_idx, Len(playable_actions))
    IN  [exc |-> r.exc, val |-> r.exc = "" /\ action_idx.val < Len(playable_actions)]

\* The range check with its upper bound one short: 0 <= action_idx < len - 1.
Gemini_json_in_range_short(action_idx, playable_actions) ==
    LET r == in_range(action_idx, Len(playable_actions))
    IN  [exc |-> r.exc, val |-> r.val /\ action_idx.val < Len(playable_actions) - 1]

\* if 0 <= action_idx < len(playable_actions), in the structured path
Gemini_json_in_range(action_idx, playable_actions) ==
    in_range(action_idx, Len(playable_actions))

\* The range check of the plain integer path with a strict lower bound.
Gemini_int_in_range_positive(action_idx, playable_actions) ==
    LET r == in_range(action_idx, Len(playable_actions))
    IN  [exc |-> r.exc, val |-> r.val /\ action_idx.val > 0]

\* if 0 <= action_idx < len(playable_actions), in the plain integer path
Gemini_int_in_range(action_idx, playable_actions) ==
    in_range(action_idx, Len(playable_actions))

\* The range check of the structured path and the return it guards.
Gemini_json_select(action_idx, ok, playable_actions) ==
    IF ok.exc # "" THEN Raise(ok.exc, <<action_idx>>)
    ELSE IF ok.val THEN ReturnItem(playable_actions, action_idx, <<action_idx>>)
    ELSE FallThrough(<<action_idx>>)

\* action_idx = content["selected_action"] and what follows it.
Gemini_json_field(field, playable_actions) ==
    IF field.exc # "" THEN Raise(field.exc, << >>)
    ELSE Gemini_json_select(field.val,
                            Gemini_json_in_range(field.val, playable_actions),
                            playable_actions)

\* content = json.loads(...) and what follows it.
Gemini_json_content(content, playable_actions) ==
    IF content.type = "JSONDecodeError" THEN Raise("JSONDecodeError", << >>)
    ELSE Gemini_json_field(getitem(content), playable_actions)

\* The body of the inner try: json.loads, the field, the range check.
Gemini_json_body(text, playable_actions) ==
    Gemini_json_content(json_loads(text), playable_actions)

\* The range check of the plain integer path and the return it guards.
Gemini_int_select(action_idx, playable_actions) ==
    IF Gemini_int_in_range(action_idx, playable_actions).val
    THEN ReturnItem(playable_actions, action_idx, <<action_idx>>)
    ELSE FallThrough(<<action_idx>>)

\* action_idx = int(...) and what follows it; except ValueError: pass.
Gemini_int_parsed(parsed, playable_actions) ==
    IF parsed.exc = "ValueError" THEN FallThrough(<< >>)
    ELSE Gemini_int_select(PyInt(parsed.val), playable_actions)

\* The handler of the inner try: int(content.strip()), the range check.
Gemini_int_body(text, playable_actions) ==
    Gemini_int_parsed(int(strip(text)), playable_actions)

\* except (json.JSONDecodeError, KeyError)
Gemini_inner_caught == {"JSONDecodeError", "KeyError"}

\* The inner try statement, given how its body ended.
Gemini_inner_try(body, text, playable_actions) ==
    IF body.kind = "raise" /\ body.exc \in Gemini_inner_caught
    THEN Gemini_int_body(text, playable_actions)
    ELSE body

Gemini_parse(text, playable_actions) ==
    Gemini_inner_try(Gemini_json_body(text, playable_actions), text, playable_actions)

\* The retry after an invalid reply without its test of the attempt number:
\* the last attempt sleeps too.
Gemini_after_parse_always_sleeps(r, attempt, max_retries) ==
    IF r.kind # "fallthrough" THEN r ELSE SleepContinue(r.idx)

\* The statements after the inner try statement, given how it ended.
Gemini_after_parse(r, attempt, max_retries) ==
    IF r.kind # "fallthrough" THEN r
    ELSE IF Gemini_may_retry(attempt, max_retries) THEN SleepContinue(r.idx)
    ELSE r

\* The statements of the outer try after the remote call has returned.
Gemini_try(completion, playable_actions, attempt, max_retries) ==
    IF Gemini_no_content(completion)
    THEN IF Gemini_may_retry(attempt, max_retries) THEN SleepContinue(<< >>)
         ELSE ReturnItem(playable_actions, PyInt(0), << >>)
    ELSE Gemini_after_parse(Gemini_parse(completion.content, playable_actions),
                            attempt, max_retries)

\* An outer handler that names the transport and parse errors only.
Gemini_outer_caught_narrow ==
    TransportErrors \cup {"JSONDecodeError", "KeyError", "ValueError"}

\* An outer handler for what the parsing raises only.
Gemini_outer_caught_parse_only == Exceptions \ TransportErrors

\* except Exception
Gemini_outer_caught == Exceptions

\* An outer handler that never retries.
Gemini_except_no_retry(attempt, max_retries) == FallThrough(<< >>)

\* The outer handler after its prints.
Gemini_except(attempt, max_retries) ==
    IF Gemini_may_retry(attempt, max_retries) THEN SleepContinue(<< >>)
    ELSE FallThrough(<< >>)

\* A fallback that returns the last move of the list.
Gemini_fallback_last(playable_actions) ==
    ReturnItem(playable_actions, PyInt(0 - 1), << >>)

\* return playable_actions[0], the statement after the try statement.
Gemini_fallback(playable_actions) == ReturnItem(playable_actions, PyInt(0), << >>)

\* A loop that does not advance its counter.
Gemini_next_attempt_same(attempt) == attempt

\* for attempt in range(self.max_retries): the attempt after this one.
Gemini_next_attempt(attempt) == attempt + 1

\* --------------------------------------------------- OpenAIGPT4OMiniPlayer

\* if not completion.choices or not completion.choices[0].message
\*    or not completion.choices[0].message.content
OpenAI_no_content(completion) ==
    \/ completion.shape \in {"no_choices", "no_message", "none_content"}
    \/ completion.content = << >>

\* if attempt < self.max_retries - 1
OpenAI_may_retry(attempt, max_retries) == attempt < max_retries - 1

\* if 0 <= action_idx < len(playable_actions), in the structured path
OpenAI_json_in_range(action_idx, playable_actions) ==
    in_range(action_idx, Len(playable_actions))

\* if 0 <= action_idx < len(playable_actions), in the plain integer path
OpenAI_int_in_range(action_idx, playable_actions) ==
    in_range(action_idx, Len(playable_actions))

\* The range check of the structured path and the return it guards.
OpenAI_json_select(action_idx, ok, playable_actions) ==
    IF ok.exc # "" THEN Raise(ok.exc, <<action_idx>>)
    ELSE IF ok.val THEN ReturnItem(playable_actions, action_idx, <<action_idx>>)
    ELSE FallThrough(<<action_idx>>)

\* action_idx = content["selected_action"] and what follows it.
OpenAI_json_field(field, playable_actions) ==
    IF field.exc # "" THEN Raise(field.exc, << >>)
    ELSE OpenAI_json_select(field.val,
                            OpenAI_json_in_range(field.val, playable_actions),
                            playable_actions)

\* content = json.loads(...) and what follows it.
OpenAI_json_content(content, playable_actions) ==
    IF content.type = "JSONDecodeError" THEN Raise("JSONDecodeError", << >>)
    ELSE OpenAI_json_field(getitem(content), playable_actions)

\* The body of the inner try: json.loads, the field, the range check.
OpenAI_json_body(text, playable_actions) ==
    OpenAI_json_content(json_loads(text), playable_actions)

\* The range check of the plain integer path and the return it guards.
OpenAI_int_select(action_idx, playable_actions) ==
    IF OpenAI_int_in_range(action_idx, playable_actions).val
    THEN ReturnItem(playable_actions, action_idx, <<action_idx>>)
    ELSE FallThrough(<<action_idx>>)

\* action_idx = int(...) and what follows it; except ValueError: pass.
OpenAI_int_parsed(parsed, playable_actions) ==
    IF parsed.exc = "ValueError" THEN FallThrough(<< >>)
    ELSE OpenAI_int_select(PyInt(parsed.val), playable_actions)

\* The handler of the inner try: int(content.strip()), the range check.
OpenAI_int_body(text, playable_actions) ==
    OpenAI_int_parsed(int(strip(text)), playable_actions)

\* An inner handler that catches TypeError too, in this class only.
OpenAI_inner_caught_typeerror == {"JSONDecodeError", "KeyError", "TypeError"}

\* except (json.JSONDecodeError, KeyError)
OpenAI_inner_caught == {"JSONDecodeError", "KeyError"}

\* The inner try statement, given how its body ended.
OpenAI_inner_try(body, text, playable_actions) ==
    IF body.kind = "raise" /\ body.exc \in OpenAI_inner_caught
    THEN OpenAI_int_body(text, playable_actions)
    ELSE body

OpenAI_parse(text, playable_actions) ==
    OpenAI_inner_try(OpenAI_json_body(text, playable_actions), text, playable_actions)

\* The statements after the inner try statement, given how it ended.
OpenAI_after_parse(r, attempt, max_retries) ==
    IF r.kind # "fallthrough" THEN r
    ELSE IF OpenAI_may_retry(attempt, max_retries) THEN SleepContinue(r.idx)
    ELSE r

\* The statements of the outer try after the remote call has returned.
OpenAI_try(completion, playable_actions, attempt, max_retries) ==
    IF OpenAI_no_content(completion)
    THEN IF OpenAI_may_retry(attempt, max_retries) THEN SleepContinue(<< >>)
         ELSE ReturnItem(playable_actions, PyInt(0), << >>)
    ELSE OpenAI_after_parse(OpenAI_parse(completion.content, playable_actions),
                            attempt, max_retries)

\* except Exception
OpenAI_outer_caught == Exceptions

\* The outer handler after its prints.
OpenAI_except(attempt, max_retries) ==
    IF OpenAI_may_retry(attempt, max_retries) THEN SleepContinue(<< >>)
    ELSE FallThrough(<< >>)

\* return playable_actions[0], the statement after the try statement.
OpenAI_fallback(playable_actions) == ReturnItem(playable_actions, PyInt(0), << >>)

\* for attempt in range(self.max_retries): the attempt after this one.
OpenAI_next_attempt(attempt) == attempt + 1

\* ------------------------------------------------------------------ state

VARIABLES
    player,            \* the class of the player instance
    max_retries,       \* self.max_retries
    retry_delay,       \* self.retry_delay
    pc,                \* where decide stands: idle, call, handle, except, sleep, done, raised
    playable_actions,  \* the move list of the decision in progress
    attempt,           \* the loop variable of decide
    completion,        \* the local variable completion
    completion_of,     \* the attempt whose remote call bound completion
    error,             \* the exception e the outer handler holds
    result,            \* what decide returned
    calls,             \* remote calls made by this decision
    delays,            \* time.sleep calls made by this decision
    slept,             \* seconds slept by this decision
    trace,             \* the calls, delays and the return of this decision, in order
    log,               \* what the outer handler printed during this decision
    hist               \* the kind of outcome of each remote call of this decision

vars ==
    <<player, max_retries, retry_delay, pc, playable_actions, attempt, completion,
      completion_of, error, result, calls, delays, slept, trace, log, hist>>

Players == {"GEMINI2_0", "OPENAI_GPT4O_MINI"}

\* What a function returns that ends without a return statement.
None == 0

\* The move at position i of a move list: moves are opaque and distinct.
Action(i) == 100 + i

Unbound == [shape |-> "unbound", content |-> << >>]

\* What the remote call can return: no choices, a first choice without a
\* message, a message whose content is None, or a content text ("" too).
Completions ==
    {[shape |-> sh, content |-> << >>] : sh \in {"no_choices", "no_message", "none_content"}}
        \cup {[shape |-> "content", content |-> t] : t \in Texts \cup {<< >>}}

\* --------------------------------------------------- kinds of remote outcome
\*
\* hist records, for every remote call of a decision, which kind of outcome
\* of the specification's error taxonomy it had.  The kind is read off the
\* reply text alone, not off the path decide takes through it.

\* The index a structured reply carries: the integer stored under the key
\* of the schema (a JSON true or false is the Python integer 1 or 0).
StructuredIndex(text) ==
    LET c == json_loads(text)
    IN  IF c.type = "dict" /\ c.key = KEY /\ c.item.type \in {"int", "bool"}
        THEN <<c.item.val>> ELSE << >>

\* The index a bare integer reply carries.
BareIndex(text) ==
    LET r == int(strip(text)) IN IF r.exc = "" THEN <<r.val>> ELSE << >>

\* The kinds of reply of the error taxonomy, for a move list of n moves.
ReplyKind(c, n) ==
    IF c.shape # "content" \/ c.content = << >> THEN "empty"
    ELSE IF StructuredIndex(c.content) # << >>
    THEN IF StructuredIndex(c.content)[1] \in 0..(n - 1) THEN "structured" ELSE "out_of_range"
    ELSE IF BareIndex(c.content) # << >>
    THEN IF BareIndex(c.content)[1] \in 0..(n - 1) THEN "bare" ELSE "out_of_range"
    ELSE "unparseable"

\* ReplyKind of every completion, for every length of the move list.
KindTable == [n \in 1..MaxN |-> [c \in Completions |-> ReplyKind(c, n)]]

FailureKinds == {"transport", "empty", "unparseable", "out_of_range"}

\* ----------------------------------------------------------------- dispatch

Try(c, list, a, m) ==
    IF player = "GEMINI2_0" THEN Gemini_try(c, list, a, m) ELSE OpenAI_try(c, list, a, m)

Except(a, m) ==
    IF player = "GEMINI2_0" THEN Gemini_except(a, m) ELSE OpenAI_except(a, m)

Fallback(list) ==
    IF player = "GEMINI2_0" THEN Gemini_fallback(list) ELSE OpenAI_fallback(list)

OuterCaught ==
    IF player = "GEMINI2_0" THEN Gemini_outer_caught ELSE OpenAI_outer_caught

NextAttempt(a) ==
    IF player = "GEMINI2_0" THEN Gemini_next_attempt(a) ELSE OpenAI_next_attempt(a)

\* ------------------------------------------------------------------ actions

\* __init__ of either class.
Init ==
    /\ player \in Players
    /\ max_retries = 2
    /\ retry_delay = 1
    /\ pc = "idle"
    /\ playable_actions = << >>
    /\ attempt = 0
    /\ completion = Unbound
    /\ completion_of = 0 - 1
    /\ error = ""
    /\ result = None
    /\ calls = 0
    /\ delays = 0
    /\ slept = 0
    /\ trace = << >>
    /\ log = << >>
    /\ hist = << >>

\* The end of decide: a return, or an exception that leaves it.
Finish(r) ==
    IF r.kind = "return"
    THEN /\ pc' = "done"
         /\ result' = r.move
         /\ trace' = Append(trace, "return")
    ELSE /\ pc' = "raised"
         /\ result' = None
         /\ trace' = Append(trace, "raise")

\* decide is called with a move list of n moves, and enters its loop.
Decide(n) ==
    /\ pc \in {"idle", "done"}
    /\ playable_actions' = [i \in 1..n |-> Action(i - 1)]
    /\ attempt' = 0
    /\ completion' = Unbound
    /\ completion_of' = 0 - 1
    /\ error' = ""
    /\ calls' = 0
    /\ delays' = 0
    /\ slept' = 0
    /\ log' = << >>
    /\ hist' = << >>
    /\ IF 0 < max_retries
       THEN pc' = "call" /\ result' = None /\ trace' = << >>
       ELSE pc' = "done" /\ result' = None /\ trace' = <<"return">>
    /\ UNCHANGED <<player, max_retries, retry_delay>>

\* self.client.chat.completions.create(...) raises or returns a completion.
RemoteCall ==
    /\ pc = "call"
    /\ calls' = calls + 1
    /\ \/ \E e \in TransportErrors :
            /\ hist' = Append(hist, "transport")
            /\ IF e \in OuterCaught
               THEN pc' = "except" /\ error' = e /\ trace' = Append(trace, "call")
                    /\ result' = result
               ELSE pc' = "raised" /\ error' = e /\ trace' = trace \o <<"call", "raise">>
                    /\ result' = None
            /\ UNCHANGED <<completion, completion_of>>
       \/ \E c \in Completions :
            /\ completion' = c
            /\ completion_of' = attempt
            /\ hist' = Append(hist, KindTable[Len(playable_actions)][c])
            /\ pc' = "handle"
            /\ trace' = Append(trace, "call")
            /\ UNCHANGED <<error, result>>
    /\ UNCHANGED <<player, max_retries, retry_delay, playable_actions, attempt,
                   delays, slept, log>>

\* How decide goes on after the statements of the outer try.
AfterTry(r) ==
    CASE r.kind = "return" -> Finish(r) /\ error' = error
      [] r.kind = "continue" ->
             pc' = "sleep" /\ UNCHANGED <<result, trace, error>>
      [] r.kind = "raise" ->
             IF r.exc \in OuterCaught
             THEN pc' = "except" /\ error' = r.exc /\ UNCHANGED <<result, trace>>
             ELSE Finish(r) /\ error' = r.exc
      [] r.kind = "fallthrough" ->
             Finish(Fallback(playable_actions)) /\ error' = error

\* The rest of the outer try, from the test for an absent reply on.
HandleCompletion ==
    /\ pc = "handle"
    /\ AfterTry(Try(completion, playable_actions, attempt, max_retries))
    /\ UNCHANGED <<player, max_retries, retry_delay, playable_actions, attempt,
                   completion, completion_of, calls, delays, slept, log, hist>>

\* The outer handler: it prints the failure, the state text and, when the
\* name completion is bound, the completion; then it retries or falls back.
HandleException ==
    /\ pc = "except"
    /\ log' = Append(log, [attempt  |-> attempt + 1,
                           error    |-> error,
                           state    |-> TRUE,
                           response |-> IF completion.shape # "unbound"
                                        THEN completion_of ELSE 0 - 1])
    /\ error' = ""
    /\ LET r == Except(attempt, max_retries)
       IN  IF r.kind = "continue"
           THEN pc' = "sleep" /\ UNCHANGED <<result, trace>>
           ELSE Finish(Fallback(playable_actions))
    /\ UNCHANGED <<player, max_retries, retry_delay, playable_actions, attempt,
                   completion, completion_of, calls, delays, slept, hist>>

\* A delay with backoff kept on the instance: self.retry_delay *= 2.
Sleep_backoff ==
    /\ pc = "sleep"
    /\ delays' = delays + 1
    /\ slept' = slept + retry_delay
    /\ retry_delay' = retry_delay * 2
    /\ IF NextAttempt(attempt) < max_retries
       THEN attempt' = NextAttempt(attempt) /\ pc' = "call"
            /\ trace' = Append(trace, "delay") /\ result' = result
       ELSE attempt' = attempt /\ pc' = "done"
            /\ trace' = trace \o <<"delay", "return">> /\ result' = None
    /\ UNCHANGED <<player, max_retries, playable_actions, completion,
                   completion_of, error, calls, log, hist>>

\* time.sleep(self.retry_delay); continue.  The loop ends, and decide with
\* it, when range(self.max_retries) has no next attempt.
Sleep ==
    /\ pc = "sleep"
    /\ delays' = delays + 1
    /\ slept' = slept + retry_delay
    /\ LET n == NextAttempt(attempt)
       IN  IF n < max_retries
           THEN /\ attempt' = n
                /\ pc' = "call"
                /\ trace' = Append(trace, "delay")
                /\ result' = result
           ELSE /\ attempt' = attempt
                /\ pc' = "done"
                /\ trace' = trace \o <<"delay", "return">>
                /\ result' = None
    /\ UNCHANGED <<player, max_retries, retry_delay, playable_actions, completion,
                   completion_of, error, calls, log, hist>>

Next ==
    \/ \E n \in 1..MaxN : Decide(n)
    \/ RemoteCall
    \/ HandleCompletion
    \/ HandleException
    \/ Sleep

Spec == Init /\ [][Next]_vars

\* ------------------------------------------------------------------ claims

N == Len(playable_actions)

\* The moves of the list, by position (positions count from 0).
Move(i) == playable_actions[i + 1]

\* The completion is the reply to the remote call of the current attempt.
ReplyOfAttempt == completion_of = attempt /\ completion.shape # "unbound"

\* The value the current attempt assigns to action_idx from its reply.
ParsedIdx == Try(completion, playable_actions, attempt, max_retries).idx

\* The current attempt has parsed an integer from its reply.
ParsedInteger ==
    ReplyOfAttempt /\ ParsedIdx # << >> /\ ParsedIdx[1].type \in {"int", "bool"}

\* The current attempt has parsed an integer that is a position of the list.
ValidIndex == ParsedInteger /\ ParsedIdx[1].val \in 0..(N - 1)

LastKind == hist[Len(hist)]

AllKindsIn(S) == hist # << >> /\ \A j \in 1..Len(hist) : hist[j] \in S

\* C1: whatever the remote outcomes, what decide returns is one of the moves
\* of the list it was given: never a value outside it, never no move.
C1_ReturnsListedMove ==
    pc = "done" => \E i \in 0..(N - 1) : result = Move(i)

C1_Witness ==
    /\ pc = "done" /\ N = 3 /\ result = Move(2)
    /\ hist = <<"unparseable", "structured">>

\* C2: no exception of the remote call or of the parsing leaves decide: it
\* never ends raising, and when it ends it has returned a move.
C2_NoExceptionEscapes ==
    /\ pc # "raised"
    /\ pc = "except" => error \in OuterCaught
    /\ pc = "done" => result # None

\* Both attempts raised while parsing: the first reply was valid JSON but no
\* object, the second a structured reply whose field is no integer.
C2_Witness ==
    /\ pc = "done"
    /\ Len(log) = 2 /\ log[1].error = "TypeError" /\ log[2].error = "TypeError"
    /\ hist[1] = "bare"
    /\ completion.content = <<"{", KEY, ":", "null", "}">>

\* C3: a decision makes at most max_retries remote calls, 2 as configured,
\* and its attempt counter stays in 0..max_retries-1.
C3_AttemptsBounded ==
    /\ max_retries = 2
    /\ calls <= max_retries
    /\ attempt \in 0..(max_retries - 1)

C3_Witness == pc = "done" /\ calls = max_retries /\ attempt = max_retries - 1

\* C4: when the first reply is a structured object whose field is a position
\* i of the list, decide returns the move at i after one remote call and no
\* delay.
C4_FirstStructuredReply ==
    (Len(hist) >= 1 /\ hist[1] = "structured") =>
        \/ pc = "handle" /\ calls = 1 /\ delays = 0
        \/ /\ pc = "done"
           /\ result = Move(StructuredIndex(completion.content)[1])
           /\ calls = 1 /\ delays = 0 /\ Len(hist) = 1

C4_Witness ==
    /\ pc = "done" /\ N = 3 /\ hist = <<"structured">>
    /\ completion.content = <<"{", KEY, ":", "2", "}">>
    /\ result = Move(2)

\* C5: when the content of a reply is a bare integer literal k that is a
\* position of the list, that attempt yields k: decide returns the move at k
\* with no further remote call.
C5_BareIntegerSelects ==
    \A j \in 1..Len(hist) :
        hist[j] = "bare" =>
            /\ j = Len(hist)
            /\ \/ pc = "handle"
               \/ /\ pc = "done"
                  /\ result = Move(BareIndex(completion.content)[1])
                  /\ calls = j

\* C6: when every attempt receives an empty, unparseable or out-of-range
\* reply, decide returns the first move after max_retries remote calls and
\* max_retries - 1 delays.
C6_AllRepliesInvalid ==
    (pc \in {"done", "raised"} /\ AllKindsIn({"empty", "unparseable", "out_of_range"})) =>
        /\ pc = "done"
        /\ result = Move(0)
        /\ calls = max_retries
        /\ delays = max_retries - 1

C6_Witness ==
    /\ pc = "done" /\ N = 3 /\ result = Move(0)
    /\ hist = <<"out_of_range", "unparseable">>
    /\ calls = 2 /\ delays = 1

\* C7: when every remote call raises a transport failure, decide returns
\* the first move without raising, after 2 remote calls and 1 delay.
C7_AllTransportFailures ==
    (pc \in {"done", "raised"} /\ AllKindsIn({"transport"})) =>
        /\ pc = "done"
        /\ result = Move(0)
        /\ calls = max_retries /\ calls = 2
        /\ delays = max_retries - 1 /\ delays = 1
        /\ Len(log) = calls

C7_Witness ==
    /\ pc = "done" /\ N = 2 /\ result = Move(0)
    /\ hist = <<"transport", "transport">>
    /\ calls = 2 /\ delays = 1

\* C8: once an attempt has parsed a valid position of the list, decide
\* returns on that attempt: the next step is the return, and no remote call
\* and no delay of this decision comes after it.
C8_SuccessEndsDecision ==
    [][/\ (pc = "handle" /\ ValidIndex) =>
            (pc' = "done" /\ result' = Move(ParsedIdx[1].val)
                /\ calls' = calls /\ delays' = delays)
       /\ (pc = "done" /\ ValidIndex) => (pc' = "call" /\ calls' = 0 /\ delays' = 0)
      ]_vars

\* A success on the first attempt, with an attempt left in the budget.
C8_Witness ==
    /\ pc = "done" /\ N = 3 /\ ValidIndex
    /\ attempt = 0 /\ calls = 1 /\ calls < max_retries /\ delays = 0
    /\ result = Move(1)

\* C9: the range check is exact.  An attempt that parsed the integer v ends
\* in the return of the move at v when 0 <= v <= N-1; for any other v (N and
\* -1 too) the attempt fails: it goes on to the delay before the next
\* attempt, or, on the last attempt, to the fallback move.
C9_RangeCheckExact ==
    (pc \in {"sleep", "done", "except", "raised"} /\ ParsedInteger) =>
        IF ParsedIdx[1].val \in 0..(N - 1)
        THEN pc = "done" /\ result = Move(ParsedIdx[1].val)
        ELSE \/ pc = "sleep" /\ attempt < max_retries - 1
             \/ pc = "done" /\ attempt = max_retries - 1 /\ result = Move(0)
                    /\ calls = max_retries

\* The first attempt parsed N - 1 and returned the last move.
C9_Witness ==
    /\ pc = "done" /\ N = 3 /\ attempt = 0
    /\ ParsedInteger /\ ParsedIdx[1].val = N - 1 /\ result = Move(N - 1)

\* C10: when an attempt that is not the last fails (a transport failure, an
\* empty, an unparseable or an out-of-range reply) and the next attempt
\* receives a structured reply with the position i, decide returns the move
\* at i, after one remote call and one delay more than the failed attempt.
C10_RecoveryAfterFailure ==
    \A j \in 1..(Len(hist) - 1) :
        (hist[j] \in FailureKinds /\ hist[j + 1] = "structured") =>
            /\ Len(hist) = j + 1
            /\ \/ pc = "handle"
               \/ /\ pc = "done"
                  /\ result = Move(StructuredIndex(completion.content)[1])
            /\ calls = j + 1
            /\ delays = j

C10_Witness ==
    /\ pc = "done" /\ N = 3
    /\ hist = <<"transport", "structured">>
    /\ result = Move(2) /\ calls = 2 /\ delays = 1

\* Some way for the statements after the remote call to end: with a return,
\* a retry, an exception or a fall through to the fallback.
HandlerEnds ==
    {Return(Action(i), << >>) : i \in 0..(MaxN - 1)}
        \cup {Raise(e, << >>) : e \in Exceptions}
        \cup {SleepContinue(<< >>), FallThrough(<< >>)}

\* A step of decide from the return of the remote call to the end of the
\* outer try.  Every HandleCompletion step is one, and one is possible
\* exactly where HandleCompletion is: wherever pc = "handle".
Handling ==
    /\ pc = "handle"
    /\ \E r \in HandlerEnds : AfterTry(r)
    /\ UNCHANGED <<player, max_retries, retry_delay, playable_actions, attempt,
                   completion, completion_of, calls, delays, slept, log, hist>>

\* The remote call returns or raises, the delay elapses, and decide, being
\* sequential code, takes its next step; whether decide is called again is
\* up to the caller.
FairSpec ==
    /\ Spec
    /\ WF_vars(RemoteCall)
    /\ WF_vars(Handling)
    /\ WF_vars(HandleException)
    /\ WF_vars(Sleep)

\* C11: when every remote call returns or raises and every delay elapses,
\* every decide call ends: it reaches the return of a move.
C11_DecideTerminates ==
    (pc \in {"call", "handle", "except", "sleep"}) ~> (pc = "done" /\ result # None)

\* A decision that went through both attempts and both kinds of wait.
C11_Witness ==
    /\ pc = "done" /\ result # None
    /\ trace = <<"call", "delay", "call", "return">>
    /\ hist = <<"empty", "transport">>

\* C12: a reply whose structured extraction gives no in-range index, but
\* whose text is an in-range bare integer k, makes decide return move k on
\* that attempt: once the handler is through with such a reply, decide has
\* returned playable_actions[k].
C12_BothExtractionsApplied ==
    ( /\ pc \in {"except", "sleep", "done", "raised"}
      /\ ReplyOfAttempt
      /\ completion.shape = "content"
      /\ \/ StructuredIndex(completion.content) = << >>
         \/ StructuredIndex(completion.content)[1] \notin 0..(N - 1)
      /\ BareIndex(completion.content) # << >>
      /\ BareIndex(completion.content)[1] \in 0..(N - 1) )
        => /\ pc = "done"
           /\ result = Move(BareIndex(completion.content)[1])
           /\ calls = attempt + 1

\* The events of trace before position i that are calls.
CallsBefore(i) == Cardinality({j \in 1..(i - 1) : trace[j] = "call"})

\* C13: the events of a decision are in the order call, (delay, call)*,
\* return: a delay stands between two calls, the first of which is the call
\* of a failed attempt that is not the last one, a return stands directly
\* after a call and ends the decision, and when decide has returned the
\* delays are one fewer than the remote calls.
C13_CallDelayOrder ==
    /\ \A i \in 1..Len(trace) :
          /\ trace[i] \in {"call", "delay", "return"}
          /\ trace[i] = "call" => (i = 1 \/ trace[i - 1] = "delay")
          /\ trace[i] = "delay" =>
                /\ i > 1 /\ trace[i - 1] = "call"
                /\ CallsBefore(i) < max_retries
                /\ hist[CallsBefore(i)] # "structured"
                /\ i < Len(trace) \/ pc = "call"
          /\ trace[i] = "return" => (i = Len(trace) /\ i > 1 /\ trace[i - 1] = "call")
    /\ calls = Cardinality({i \in 1..Len(trace) : trace[i] = "call"})
    /\ delays = Cardinality({i \in 1..Len(trace) : trace[i] = "delay"})
    /\ pc = "done" => (trace[Len(trace)] = "return" /\ delays = calls - 1)
    /\ pc \in {"handle", "except", "sleep"} => trace[Len(trace)] = "call"

\* A decision of two calls has returned, with one delay between the calls.
C13_Witness ==
    /\ pc = "done"
    /\ trace = <<"call", "delay", "call", "return">>
    /\ calls = 2 /\ delays = 1
    /\ hist[1] = "unparseable" /\ hist[2] = "structured"

\* C14: the kind of a failure makes no difference to what decide does next.
\* Whatever the kind of the failure of an attempt (transport failure, empty
\* reply, unparseable text, out-of-range index), decide is at the same place
\* with the same counts after it: before the delay when the attempt is not
\* the last, returned with the first move of the list when it is.  So two
\* runs on the same list that differ only in the kinds of their failures
\* make the same calls and delays and return the same move.
C14_FailureKindsEquivalent ==
    ( /\ pc \in {"sleep", "done", "raised"}
      /\ Len(hist) = attempt + 1
      /\ hist[attempt + 1] \in FailureKinds )
        => IF attempt < max_retries - 1
           THEN pc = "sleep" /\ calls = attempt + 1 /\ delays = attempt /\ result = None
           ELSE /\ pc = "done" /\ result = Move(0)
                /\ calls = max_retries /\ delays = max_retries - 1

\* A decision whose two attempts failed in two different ways has returned.
C14_Witness ==
    /\ pc = "done"
    /\ hist = <<"transport", "out_of_range">>
    /\ result = Move(0) /\ calls = 2 /\ delays = 1

\* C15: the two adapters run the same decision procedure.  In every state a
\* decision of either adapter reaches, the statements of Gemini2_0Player and
\* those of OpenAIGPT4OMiniPlayer end the same way: the outer try on the same
\* completion, the outer handler, the fallback and the step of the loop.  So
\* for the same move list and the same remote outcomes both return the same
\* move after the same calls and delays.
C15_AdaptersAgree ==
    /\ Gemini_outer_caught = OpenAI_outer_caught
    /\ pc = "handle" =>
          Gemini_try(completion, playable_actions, attempt, max_retries)
            = OpenAI_try(completion, playable_actions, attempt, max_retries)
    /\ pc = "except" =>
          Gemini_except(attempt, max_retries) = OpenAI_except(attempt, max_retries)
    /\ pc \in {"handle", "except"} =>
          Gemini_fallback(playable_actions) = OpenAI_fallback(playable_actions)
    /\ pc = "sleep" => Gemini_next_attempt(attempt) = OpenAI_next_attempt(attempt)

\* The second adapter is about to handle, on its last attempt, a reply that
\* only the plain integer path accepts.
C15_Witness ==
    /\ player = "OPENAI_GPT4O_MINI"
    /\ pc = "handle" /\ attempt = 1 /\ N = 2
    /\ completion.content = <<"+", "1">>
    /\ OpenAI_try(completion, playable_actions, attempt, max_retries).kind = "return"

\* C16: every transport failure is logged on the attempt where it occurs,
\* with the failure and the state text, before the delay, the next call or
\* the return of the fallback; decide neither raises it nor returns it.
C16_TransportFailuresLogged ==
    /\ pc # "raised"
    /\ pc = "done" => \E i \in 0..(N - 1) : result = Move(i)
    /\ \A j \in 1..Len(hist) :
          hist[j] = "transport" =>
              IF j = Len(hist) /\ pc = "except"
              THEN error \in TransportErrors /\ trace[Len(trace)] = "call"
              ELSE \E k \in 1..Len(log) :
                      /\ log[k].attempt = j
                      /\ log[k].error \in TransportErrors
                      /\ log[k].state

\* The first call has raised a transport failure, the handler has logged it,
\* and the delay has not begun.
C16_Witness ==
    /\ pc = "sleep" /\ delays = 0
    /\ hist = <<"transport">>
    /\ Len(log) = 1 /\ log[1].attempt = 1 /\ log[1].error = "RateLimitError"

\* C17: decide changes nothing it is given and keeps nothing between
\* decisions: no step changes max_retries or retry_delay, no step of a
\* decision changes the move list, and every decision starts at attempt 0
\* with nothing left of the decision before it.
C17_NoStateBetweenDecisions ==
    [][ /\ max_retries' = max_retries
        /\ retry_delay' = retry_delay
        /\ pc \notin {"idle", "done"} => playable_actions' = playable_actions
        /\ (pc \in {"idle", "done"} /\ pc' = "call") =>
              /\ attempt' = 0 /\ calls' = 0 /\ delays' = 0 /\ slept' = 0
              /\ completion' = Unbound /\ error' = ""
              /\ log' = << >> /\ hist' = << >> /\ trace' = << >>
              /\ result' = None ]_vars

\* A decision has ended with a delay behind it, a completion bound and a
\* failure logged, and decide can be called again.
C17_Witness ==
    /\ pc = "done" /\ delays = 1 /\ attempt = 1
    /\ completion.shape = "content" /\ log # << >>
    /\ ENABLED Decide(1)

\* C18: decide returns through the fallback only when the attempts are used
\* up: when it has returned without a valid index parsed on the attempt it
\* returned from, it has made max_retries calls, none of which gave a valid
\* index, and what it returns is the first move.
C18_FallbackOnlyByExhaustion ==
    (pc = "done" /\ ~ValidIndex) =>
        /\ result = Move(0)
        /\ calls = max_retries
        /\ attempt = max_retries - 1
        /\ Len(hist) = max_retries
        /\ \A j \in 1..Len(hist) : hist[j] # "structured"

\* The fallback after an empty reply and an out-of-range index.
C18_Witness ==
    /\ pc = "done" /\ ~ValidIndex
    /\ hist = <<"empty", "out_of_range">>
    /\ result = Move(0) /\ N = 2

\* C19: the response the handler of an attempt logs is the response of that
\* attempt: the handler of an attempt whose remote call raised logs none.
C19_LoggedResponseIsOwn ==
    \A k \in 1..Len(log) :
        /\ log[k].response \in {0 - 1, log[k].attempt - 1}
        /\ hist[log[k].attempt] = "transport" => log[k].response = 0 - 1

====
